---- MODULE Spec2Model ----
(***************************************************************************)
(* Binary exponentiation (src/math/binary_exponent.cpp) and the extended   *)
(* Euclidean algorithm (src/unnamed/part_000), each in its recursive and   *)
(* its iterative form, run step by step on two's complement machine        *)
(* integers.                                                               *)
(*                                                                         *)
(* A long long is a little-endian sequence of bits; the width of a value   *)
(* is its length.  The programs' own main() runs at LLBits = 64; calls     *)
(* with arbitrary arguments are explored exhaustively at width W.          *)
(*                                                                         *)
(* Signed +, -, * wrap modulo 2^w, as the host's arithmetic does.  The     *)
(* quotient MIN / -1 (and MIN % -1) does not fit the width: the target     *)
(* either raises a division trap that ends the process, or delivers the    *)
(* wrapped quotient MIN and remainder 0; divTrap says which.               *)
(*                                                                         *)
(* A run is either main(), which makes the calls of test() in its order,   *)
(* or one call of both variants, in either order, on arbitrary arguments.  *)
(***************************************************************************)
EXTENDS Integers, Sequences, FiniteSets, TLC

\* width of the integers of the exhaustively explored calls
W == 4

\* width of long long
LLBits == 64

-----------------------------------------------------------------------------
(* long long: two's complement words *)

Bit == {0, 1}
Words(w) == [1..w -> Bit]

RECURSIVE Pow2(_)
Pow2(n) == IF n = 0 THEN 1 ELSE 2 * Pow2(n - 1)

\* the word of width w of a literal 0 <= n < 2^31
LL(w, n) == [i \in 1..w |-> IF i <= 31 THEN (n \div Pow2(i - 1)) % 2 ELSE 0]

Join(l, h) == [bits |-> l.bits \o h.bits, carry |-> h.carry]

RECURSIVE AddRange(_, _, _, _, _)
AddHigh(a, b, mid, hi, l) == Join(l, AddRange(a, b, mid + 1, hi, l.carry))

\* bits lo..hi of a + b + c and the carry out of bit hi
AddRange(a, b, lo, hi, c) ==
    IF lo = hi
    THEN [bits |-> <<(a[lo] + b[lo] + c) % 2>>, carry |-> (a[lo] + b[lo] + c) \div 2]
    ELSE AddHigh(a, b, (lo + hi) \div 2, hi, AddRange(a, b, lo, (lo + hi) \div 2, c))

Not(a) == [i \in 1..Len(a) |-> 1 - a[i]]
Add(a, b) == AddRange(a, b, 1, Len(a), 0).bits
Sub(a, b) == AddRange(a, Not(b), 1, Len(a), 1).bits
Neg(a) == AddRange([i \in 1..Len(a) |-> 0], Not(a), 1, Len(a), 1).bits

\* number of partial products a[i]*b[j] that fall into bit k of a*b
Column(a, b, k) == Cardinality({i \in 1..k : a[i] = 1 /\ b[k + 1 - i] = 1})

RECURSIVE MulRange(_, _, _, _, _)
MulHigh(a, b, mid, hi, l) == Join(l, MulRange(a, b, mid + 1, hi, l.carry))

\* bits lo..hi of a * b given the carry c into bit lo, and the carry out
MulRange(a, b, lo, hi, c) ==
    IF lo = hi
    THEN [bits |-> <<(Column(a, b, lo) + c) % 2>>, carry |-> (Column(a, b, lo) + c) \div 2]
    ELSE MulHigh(a, b, (lo + hi) \div 2, hi, MulRange(a, b, lo, (lo + hi) \div 2, c))

Mul(a, b) == MulRange(a, b, 1, Len(a), 0).bits

IsZero(a) == \A i \in 1..Len(a) : a[i] = 0
IsNeg(a) == a[Len(a)] = 1
IsPos(a) == ~IsNeg(a) /\ ~IsZero(a)

\* the magnitude of a as an unsigned word (2^(w-1) for the minimum)
Abs(a) == IF IsNeg(a) THEN Neg(a) ELSE a

\* unsigned a < b
ULess(a, b) == \E i \in 1..Len(a) : a[i] < b[i] /\ \A j \in (i + 1)..Len(a) : a[j] = b[j]

\* one step of restoring division: r1 is the remainder shifted by bit i of n
DivBit(n, d, i, st, r1) ==
    IF ULess(r1, d) THEN [q |-> <<0>> \o st.q, r |-> r1]
    ELSE [q |-> <<1>> \o st.q, r |-> Sub(r1, d)]

RECURSIVE DivRange(_, _, _, _, _)
\* the division steps of bits hi down to lo of n; st holds the quotient
\* bits above hi and the running remainder (the steps above hi are done
\* before the steps of this range begin)
DivRange(n, d, hi, lo, st) ==
    IF Len(st.q) # Len(n) - hi THEN st
    ELSE IF hi = lo THEN DivBit(n, d, hi, st, <<n[hi]>> \o SubSeq(st.r, 1, Len(n) - 1))
    ELSE DivRange(n, d, (lo + hi) \div 2, lo, DivRange(n, d, hi, (lo + hi) \div 2 + 1, st))

\* unsigned quotient and remainder, d # 0
UDiv(n, d) == DivRange(n, d, Len(n), 1, [q |-> <<>>, r |-> [i \in 1..Len(n) |-> 0]])

\* a / b and a % b of C++: the quotient truncates toward zero, the
\* remainder has the sign of a; for MIN / -1 the wrapped results
Div(a, b) == IF IsNeg(a) # IsNeg(b) THEN Neg(UDiv(Abs(a), Abs(b)).q) ELSE UDiv(Abs(a), Abs(b)).q
Rem(a, b) == IF IsNeg(a) THEN Neg(UDiv(Abs(a), Abs(b)).r) ELSE UDiv(Abs(a), Abs(b)).r

\* a >> k on a signed value
Sar(a, k) == [i \in 1..Len(a) |-> IF i + k <= Len(a) THEN a[i + k] ELSE a[Len(a)]] \o <<>>

MinLL(w) == [i \in 1..w |-> IF i = w THEN 1 ELSE 0]
MinusOne(w) == [i \in 1..w |-> 1]

\* the division a / b or a % b overflows
DivOverflows(a, b) == a = MinLL(Len(a)) /\ b = MinusOne(Len(b))

\* the literal m (a word of width w) followed by the decimal digit d
DecDigit(w, m, d) == IF Len(m) # w THEN m ELSE Add(Mul(m, LL(w, 10)), LL(w, d))

RECURSIVE LLDec(_, _)
\* the word of width w of a decimal literal given by its digits
LLDec(w, ds) ==
    IF ds = <<>> THEN LL(w, 0)
    ELSE DecDigit(w, LLDec(w, SubSeq(ds, 1, Len(ds) - 1)), ds[Len(ds)])

-----------------------------------------------------------------------------
(* binary_exponent.cpp *)

\* the odd case forgets the factor base
RecursiveResult_DropBase(half, base, exponent) == Mul(half, half)

\* the odd case is recognised by exponent % 2 == 1
RecursiveResult_PosOdd(half, base, exponent) ==
    IF Rem(exponent, LL(Len(exponent), 2)) = LL(Len(exponent), 1)
    THEN Mul(Mul(half, half), base)
    ELSE Mul(half, half)

\* lines 39-43 of binary_exponent_recursive, given the value of half
RecursiveResult(half, base, exponent) ==
    IF ~IsZero(Rem(exponent, LL(Len(exponent), 2)))
    THEN Mul(Mul(half, half), base)
    ELSE Mul(half, half)

\* the loop body without base = base * base
IterativeBody_NoSquare(l) ==
    [res |-> IF ~IsZero(Rem(l.exponent, LL(Len(l.exponent), 2)))
             THEN Mul(l.res, l.base) ELSE l.res,
     base |-> l.base,
     exponent |-> Sar(l.exponent, 1)]

\* the loop body stepping an even exponent down by one instead of halving
\* it (the result stays base^exponent, the loop is no longer logarithmic)
IterativeBody_Decrement(l) ==
    IF ~IsZero(Rem(l.exponent, LL(Len(l.exponent), 2)))
    THEN [res |-> Mul(l.res, l.base), base |-> Mul(l.base, l.base),
          exponent |-> Sar(l.exponent, 1)]
    ELSE [res |-> Mul(l.res, l.base), base |-> l.base,
          exponent |-> Sub(l.exponent, LL(Len(l.exponent), 1))]

\* one execution of the loop body of binary_exponent_iterative
IterativeBody(l) ==
    [res |-> IF ~IsZero(Rem(l.exponent, LL(Len(l.exponent), 2)))
             THEN Mul(l.res, l.base) ELSE l.res,
     base |-> Mul(l.base, l.base),
     exponent |-> Sar(l.exponent, 1)]

\* the calls of test()
PowTests ==
    << [base |-> LL(LLBits, 2), exponent |-> LL(LLBits, 10),
        expected |-> LL(LLBits, 1024)],
       [base |-> LL(LLBits, 3), exponent |-> LL(LLBits, 7),
        expected |-> LL(LLBits, 2187)],
       [base |-> LL(LLBits, 4), exponent |-> LL(LLBits, 12),
        expected |-> LL(LLBits, 16777216)],
       [base |-> LL(LLBits, 5), exponent |-> LL(LLBits, 15),
        expected |-> LLDec(LLBits, <<3, 0, 5, 1, 7, 5, 7, 8, 1, 2, 5>>)],
       [base |-> LL(LLBits, 6), exponent |-> LL(LLBits, 20),
        expected |-> LLDec(LLBits, <<3, 6, 5, 6, 1, 5, 8, 4, 4, 0, 0, 6, 2, 9, 7, 6>>)] >>

-----------------------------------------------------------------------------
(* extended Euclid (part_000) *)

\* the back-substitution without the quotient: y = x1 - y1
EuclidBack_NoQuotient(a, b, r) ==
    [gcd |-> r.gcd, x |-> r.y, y |-> Sub(r.x, r.y)]

\* lines 59-60 of extended_euclid_recursive: r is what the inner call set
EuclidBack(a, b, r) ==
    [gcd |-> r.gcd, x |-> r.y, y |-> Sub(r.x, Mul(Div(a, b), r.y))]

\* the loop body updating y1 from x1: y1 = y0 - q * x1
EuclidBody_MixedY(l) ==
    [a |-> l.b,
     b |-> Sub(l.a, Mul(Div(l.a, l.b), l.b)),
     x0 |-> l.x1,
     x1 |-> Sub(l.x0, Mul(Div(l.a, l.b), l.x1)),
     y0 |-> l.y1,
     y1 |-> Sub(l.y0, Mul(Div(l.a, l.b), l.x1))]

\* the loop body without a = temp
EuclidBody_KeepA(l) ==
    [a |-> l.a,
     b |-> Sub(l.a, Mul(Div(l.a, l.b), l.b)),
     x0 |-> l.x1,
     x1 |-> Sub(l.x0, Mul(Div(l.a, l.b), l.x1)),
     y0 |-> l.y1,
     y1 |-> Sub(l.y0, Mul(Div(l.a, l.b), l.y1))]

\* one execution of the loop body of extended_euclid_iterative
EuclidBody(l) ==
    [a |-> l.b,
     b |-> Sub(l.a, Mul(Div(l.a, l.b), l.b)),
     x0 |-> l.x1,
     x1 |-> Sub(l.x0, Mul(Div(l.a, l.b), l.x1)),
     y0 |-> l.y1,
     y1 |-> Sub(l.y0, Mul(Div(l.a, l.b), l.y1))]

\* the calls of test()
EuclidTests ==
    << [a |-> LL(LLBits, 30), b |-> LL(LLBits, 20)],
       [a |-> LL(LLBits, 101), b |-> LL(LLBits, 23)],
       [a |-> LL(LLBits, 55), b |-> LL(LLBits, 34)] >>

-----------------------------------------------------------------------------
VARIABLES
    prog,      \* the program that runs
    divTrap,   \* the target traps on a division that overflows
    cases,     \* the calls the run makes, in order
    order,     \* the order in which a case calls the two variants
    tno,       \* index of the current case
    todo,      \* the variants the current case has still to call
    pc,        \* position of the run
    stack,     \* frames of the recursive function, innermost last
    ret,       \* what the recursive call that returned last delivered
    loc,       \* locals of the iterative function
    recOut,    \* result of the recursive variant on the current case
    itOut,     \* result of the iterative variant on the current case
    calls,     \* recursive calls made inside the top-level call
    iters,     \* loop iterations of the iterative call
    printed    \* the finished cases with the results of both variants

vars == <<prog, divTrap, cases, order, tno, todo, pc, stack, ret, loc,
          recOut, itOut, calls, iters, printed>>

None == [none |-> TRUE]

Top == stack[Len(stack)]
Pop == SubSeq(stack, 1, Len(stack) - 1)

\* test() calls the recursive variant, then the iterative one
TestOrder == <<"recursive", "iterative">>

Init ==
    /\ prog \in {"binary_exponent", "extended_euclid"}
    /\ divTrap \in BOOLEAN
    /\ \/ /\ prog = "binary_exponent"
          /\ \/ cases = PowTests /\ order = TestOrder
             \/ /\ \E base \in Words(W), exponent \in Words(W) :
                       cases = <<[base |-> base, exponent |-> exponent]>>
                /\ order \in {TestOrder, <<"iterative", "recursive">>}
       \/ /\ prog = "extended_euclid"
          /\ \/ cases = EuclidTests /\ order = TestOrder
             \/ /\ \E a \in Words(W), b \in Words(W) : cases = <<[a |-> a, b |-> b]>>
                /\ order \in {TestOrder, <<"iterative", "recursive">>}
    /\ tno = 1
    /\ todo = order
    /\ pc = "test"
    /\ stack = <<>>
    /\ ret = None
    /\ loc = None
    /\ recOut = None
    /\ itOut = None
    /\ calls = 0
    /\ iters = 0
    /\ printed = <<>>

\* the case is finished: both results are printed and the next case begins
test_print ==
    /\ pc = "test" /\ todo = <<>>
    /\ printed' = Append(printed, [in |-> cases[tno], recursive |-> recOut,
                                   iterative |-> itOut,
                                   calls |-> calls, iters |-> iters])
    /\ tno' = tno + 1
    /\ todo' = order
    /\ pc' = IF tno < Len(cases) THEN "test" ELSE "done"
    /\ recOut' = None /\ itOut' = None
    /\ calls' = 0 /\ iters' = 0
    /\ UNCHANGED <<prog, divTrap, cases, order, stack, ret, loc>>

(* binary_exponent.cpp *)

\* test() calls binary_exponent_recursive(base, exponent)
pow_test_recursive ==
    /\ prog = "binary_exponent" /\ pc = "test"
    /\ todo # <<>> /\ Head(todo) = "recursive"
    /\ todo' = Tail(todo)
    /\ stack' = <<[base |-> cases[tno].base, exponent |-> cases[tno].exponent]>>
    /\ pc' = "rec_call"
    /\ UNCHANGED <<prog, divTrap, cases, order, tno, ret, loc, recOut, itOut,
                   calls, iters, printed>>

\* if (exponent == 0) return 1;
binary_exponent_recursive_base ==
    /\ prog = "binary_exponent" /\ pc = "rec_call"
    /\ IsZero(Top.exponent)
    /\ ret' = LL(Len(Top.exponent), 1)
    /\ stack' = Pop
    /\ pc' = "rec_ret"
    /\ UNCHANGED <<prog, divTrap, cases, order, tno, todo, loc, recOut, itOut,
                   calls, iters, printed>>

\* binary_exponent_recursive(base, exponent / 2)
binary_exponent_recursive_call ==
    /\ prog = "binary_exponent" /\ pc = "rec_call"
    /\ ~IsZero(Top.exponent)
    /\ stack' = Append(stack, [base |-> Top.base,
                               exponent |-> Div(Top.exponent, LL(Len(Top.exponent), 2))])
    /\ calls' = calls + 1
    /\ UNCHANGED <<prog, divTrap, cases, order, tno, todo, pc, ret, loc, recOut,
                   itOut, iters, printed>>

\* the caller receives half and returns half * half [* base]
binary_exponent_recursive_return ==
    /\ prog = "binary_exponent" /\ pc = "rec_ret"
    /\ stack # <<>>
    /\ ret' = RecursiveResult(ret, Top.base, Top.exponent)
    /\ stack' = Pop
    /\ UNCHANGED <<prog, divTrap, cases, order, tno, todo, pc, loc, recOut, itOut,
                   calls, iters, printed>>

\* test() receives the result of binary_exponent_recursive
pow_test_recursive_done ==
    /\ prog = "binary_exponent" /\ pc = "rec_ret"
    /\ stack = <<>>
    /\ recOut' = ret
    /\ ret' = None
    /\ pc' = "test"
    /\ UNCHANGED <<prog, divTrap, cases, order, tno, todo, stack, loc, itOut,
                   calls, iters, printed>>

\* test() calls binary_exponent_iterative(base, exponent): res = 1
pow_test_iterative ==
    /\ prog = "binary_exponent" /\ pc = "test"
    /\ todo # <<>> /\ Head(todo) = "iterative"
    /\ todo' = Tail(todo)
    /\ loc' = [res |-> LL(Len(cases[tno].base), 1),
               base |-> cases[tno].base,
               exponent |-> cases[tno].exponent]
    /\ pc' = "loop"
    /\ UNCHANGED <<prog, divTrap, cases, order, tno, stack, ret, recOut, itOut,
                   calls, iters, printed>>

\* while (exponent > 0) { ... }
binary_exponent_iterative_loop ==
    /\ prog = "binary_exponent" /\ pc = "loop"
    /\ IsPos(loc.exponent)
    /\ loc' = IterativeBody(loc)
    /\ iters' = iters + 1
    /\ UNCHANGED <<prog, divTrap, cases, order, tno, todo, pc, stack, ret, recOut,
                   itOut, calls, printed>>

\* return res;
binary_exponent_iterative_return ==
    /\ prog = "binary_exponent" /\ pc = "loop"
    /\ ~IsPos(loc.exponent)
    /\ itOut' = loc.res
    /\ loc' = None
    /\ pc' = "test"
    /\ UNCHANGED <<prog, divTrap, cases, order, tno, todo, stack, ret, recOut,
                   calls, iters, printed>>

(* extended Euclid *)

\* test() calls extended_euclid_recursive(a, b, gcd, x, y)
euclid_test_recursive ==
    /\ prog = "extended_euclid" /\ pc = "test"
    /\ todo # <<>> /\ Head(todo) = "recursive"
    /\ todo' = Tail(todo)
    /\ stack' = <<[a |-> cases[tno].a, b |-> cases[tno].b]>>
    /\ pc' = "rec_call"
    /\ UNCHANGED <<prog, divTrap, cases, order, tno, ret, loc, recOut, itOut,
                   calls, iters, printed>>

\* if (b == 0) { gcd = a; x = 1; y = 0; return; }
extended_euclid_recursive_base ==
    /\ prog = "extended_euclid" /\ pc = "rec_call"
    /\ IsZero(Top.b)
    /\ ret' = [gcd |-> Top.a, x |-> LL(Len(Top.a), 1), y |-> LL(Len(Top.a), 0)]
    /\ stack' = Pop
    /\ pc' = "rec_ret"
    /\ UNCHANGED <<prog, divTrap, cases, order, tno, todo, loc, recOut, itOut,
                   calls, iters, printed>>

\* extended_euclid_recursive(b, a % b, gcd, x1, y1)
extended_euclid_recursive_call ==
    /\ prog = "extended_euclid" /\ pc = "rec_call"
    /\ ~IsZero(Top.b)
    /\ ~(divTrap /\ DivOverflows(Top.a, Top.b))
    /\ stack' = Append(stack, [a |-> Top.b, b |-> Rem(Top.a, Top.b)])
    /\ calls' = calls + 1
    /\ UNCHANGED <<prog, divTrap, cases, order, tno, todo, pc, ret, loc, recOut,
                   itOut, iters, printed>>

\* a % b overflows and the target traps: the process ends
extended_euclid_recursive_trap ==
    /\ prog = "extended_euclid" /\ pc = "rec_call"
    /\ ~IsZero(Top.b)
    /\ divTrap /\ DivOverflows(Top.a, Top.b)
    /\ pc' = "trap"
    /\ UNCHANGED <<prog, divTrap, cases, order, tno, todo, stack, ret, loc, recOut,
                   itOut, calls, iters, printed>>

\* x = y1; y = x1 - (a / b) * y1;
extended_euclid_recursive_return ==
    /\ prog = "extended_euclid" /\ pc = "rec_ret"
    /\ stack # <<>>
    /\ ret' = EuclidBack(Top.a, Top.b, ret)
    /\ stack' = Pop
    /\ UNCHANGED <<prog, divTrap, cases, order, tno, todo, pc, loc, recOut, itOut,
                   calls, iters, printed>>

\* test() receives (gcd, x, y) of extended_euclid_recursive
euclid_test_recursive_done ==
    /\ prog = "extended_euclid" /\ pc = "rec_ret"
    /\ stack = <<>>
    /\ recOut' = ret
    /\ ret' = None
    /\ pc' = "test"
    /\ UNCHANGED <<prog, divTrap, cases, order, tno, todo, stack, loc, itOut,
                   calls, iters, printed>>

\* test() calls extended_euclid_iterative(a, b, gcd, x, y):
\* x0 = 1, y0 = 0, x1 = 0, y1 = 1
euclid_test_iterative ==
    /\ prog = "extended_euclid" /\ pc = "test"
    /\ todo # <<>> /\ Head(todo) = "iterative"
    /\ todo' = Tail(todo)
    /\ loc' = [a |-> cases[tno].a, b |-> cases[tno].b,
               x0 |-> LL(Len(cases[tno].a), 1), y0 |-> LL(Len(cases[tno].a), 0),
               x1 |-> LL(Len(cases[tno].a), 0), y1 |-> LL(Len(cases[tno].a), 1)]
    /\ pc' = "loop"
    /\ UNCHANGED <<prog, divTrap, cases, order, tno, stack, ret, recOut, itOut,
                   calls, iters, printed>>

\* while (b != 0) { ... }
extended_euclid_iterative_loop ==
    /\ prog = "extended_euclid" /\ pc = "loop"
    /\ ~IsZero(loc.b)
    /\ ~(divTrap /\ DivOverflows(loc.a, loc.b))
    /\ loc' = EuclidBody(loc)
    /\ iters' = iters + 1
    /\ UNCHANGED <<prog, divTrap, cases, order, tno, todo, pc, stack, ret, recOut,
                   itOut, calls, printed>>

\* a / b overflows and the target traps: the process ends
extended_euclid_iterative_trap ==
    /\ prog = "extended_euclid" /\ pc = "loop"
    /\ ~IsZero(loc.b)
    /\ divTrap /\ DivOverflows(loc.a, loc.b)
    /\ pc' = "trap"
    /\ UNCHANGED <<prog, divTrap, cases, order, tno, todo, stack, ret, loc, recOut,
                   itOut, calls, iters, printed>>

\* gcd = a; x = x0; y = y0;
extended_euclid_iterative_return ==
    /\ prog = "extended_euclid" /\ pc = "loop"
    /\ IsZero(loc.b)
    /\ itOut' = [gcd |-> loc.a, x |-> loc.x0, y |-> loc.y0]
    /\ loc' = None
    /\ pc' = "test"
    /\ UNCHANGED <<prog, divTrap, cases, order, tno, todo, stack, ret, recOut,
                   calls, iters, printed>>

Next ==
    \/ test_print
    \/ pow_test_recursive
    \/ binary_exponent_recursive_base
    \/ binary_exponent_recursive_call
    \/ binary_exponent_recursive_return
    \/ pow_test_recursive_done
    \/ pow_test_iterative
    \/ binary_exponent_iterative_loop
    \/ binary_exponent_iterative_return
    \/ euclid_test_recursive
    \/ extended_euclid_recursive_base
    \/ extended_euclid_recursive_call
    \/ extended_euclid_recursive_trap
    \/ extended_euclid_recursive_return
    \/ euclid_test_recursive_done
    \/ euclid_test_iterative
    \/ extended_euclid_iterative_loop
    \/ extended_euclid_iterative_trap
    \/ extended_euclid_iterative_return

Spec == Init /\ [][Next]_vars

-----------------------------------------------------------------------------
(* Properties *)

RECURSIVE NatOf(_, _)
\* the number whose binary digits are bits i.. of a (below 2^31)
NatOf(a, i) ==
    IF \A j \in i..Len(a) : a[j] = 0 THEN 0 ELSE a[i] + 2 * NatOf(a, i + 1)

\* the integer a two's complement word stands for
Val(a) == IF IsNeg(a) THEN -NatOf(Abs(a), 1) ELSE NatOf(a, 1)

\* the magnitude of the integer a word stands for
Mag(a) == NatOf(Abs(a), 1)

\* number of binary digits of n: 0 for 0, floor(log2(n)) + 1 otherwise
BitLen(n) == CHOOSE k \in 0..LLBits : n < Pow2(k) /\ (k = 0 \/ Pow2(k - 1) <= n)

PowTimes(p, base) == IF Len(p) # Len(base) THEN p ELSE Mul(p, base)

RECURSIVE NaivePow(_, _)
\* the product of n copies of base in the width of base
NaivePow(base, n) ==
    IF n = 0 THEN LL(Len(base), 1) ELSE PowTimes(NaivePow(base, n - 1), base)

Divides(d, n) == n % d = 0
CoPrime(m, n) == \A d \in 2..n : ~(Divides(d, m) /\ Divides(d, n))
Larger(m, n) == IF m < n THEN n ELSE m

\* the case test() printed last, in the state right after printing it
LastPrinted == printed[Len(printed)]
JustPrinted == pc \in {"test", "done"} /\ todo = order /\ Len(printed) = tno - 1 /\ printed # <<>>
PowPrinted == prog = "binary_exponent" /\ JustPrinted
EuclidPrinted == prog = "extended_euclid" /\ JustPrinted

BothAre(e, v) == e.recursive = v /\ e.iterative = v

\* C1: for every base and every exponent >= 0 the recursive and the
\* iterative power return the same word, also when the product wraps
C1_SameResult ==
    (PowPrinted /\ ~IsNeg(LastPrinted.in.exponent))
        => LastPrinted.recursive = LastPrinted.iterative

\* 3^4 = 81 does not fit the width; both variants returned the wrapped value
C1_Witness ==
    /\ PowPrinted
    /\ LastPrinted.in.base = LL(W, 3) /\ LastPrinted.in.exponent = LL(W, 4)
    /\ LastPrinted.recursive = LastPrinted.iterative
    /\ Val(LastPrinted.recursive) # 81

\* C2: for every exponent >= 0 both variants return the product of exponent
\* copies of base reduced into the width (1 for exponent 0), and the five
\* calls of test() return the values test() expects
C2_IsPower ==
    (PowPrinted /\ ~IsNeg(LastPrinted.in.exponent))
        => /\ BothAre(LastPrinted,
                      NaivePow(LastPrinted.in.base, Val(LastPrinted.in.exponent)))
           /\ "expected" \in DOMAIN LastPrinted.in
                  => BothAre(LastPrinted, LastPrinted.in.expected)

\* test() has printed 5^15 = 30517578125 for both variants
C2_Witness ==
    /\ PowPrinted /\ cases = PowTests /\ Len(printed) = 4
    /\ BothAre(LastPrinted, LLDec(LLBits, <<3, 0, 5, 1, 7, 5, 7, 8, 1, 2, 5>>))

Bezout(in, t) == Val(in.a) * Val(t.x) + Val(in.b) * Val(t.y) = Val(t.gcd)

\* C3: for every pair (a, b) of any sign, zeros included, the triple each
\* variant returns satisfies a*x + b*y = gcd over the integers
C3_Bezout ==
    EuclidPrinted => /\ Bezout(LastPrinted.in, LastPrinted.recursive)
                     /\ Bezout(LastPrinted.in, LastPrinted.iterative)

\* a pair with a negative a and a positive b, with non-zero coefficients
C3_Witness ==
    /\ EuclidPrinted
    /\ IsNeg(LastPrinted.in.a) /\ IsPos(LastPrinted.in.b)
    /\ ~IsZero(LastPrinted.recursive.x) /\ ~IsZero(LastPrinted.recursive.y)
    /\ Bezout(LastPrinted.in, LastPrinted.iterative)

\* C4: for every pair (a, b) both variants return the identical triple
\* (gcd, x, y), the gcd with the same sign
C4_SameTriple ==
    EuclidPrinted => LastPrinted.recursive = LastPrinted.iterative

\* both variants returned the same negative gcd
C4_Witness ==
    /\ EuclidPrinted
    /\ IsNeg(LastPrinted.recursive.gcd)
    /\ ~IsZero(LastPrinted.in.b)
    /\ LastPrinted.recursive = LastPrinted.iterative

IsGcd(g, a, b) ==
    /\ g > 0
    /\ Divides(g, a) /\ Divides(g, b)
    /\ \A d \in 1..Larger(a, b) : (Divides(d, a) /\ Divides(d, b)) => Divides(d, g)

\* C5: for a >= 0 and b >= 0 not both zero, the gcd both variants return is
\* positive, divides a and b, and is divided by every common divisor
C5_IsGcd ==
    (/\ EuclidPrinted
     /\ ~IsNeg(LastPrinted.in.a) /\ ~IsNeg(LastPrinted.in.b)
     /\ ~(IsZero(LastPrinted.in.a) /\ IsZero(LastPrinted.in.b)))
        => /\ IsGcd(Val(LastPrinted.recursive.gcd),
                    Val(LastPrinted.in.a), Val(LastPrinted.in.b))
           /\ IsGcd(Val(LastPrinted.iterative.gcd),
                    Val(LastPrinted.in.a), Val(LastPrinted.in.b))

\* test() has printed gcd(30, 20) = 10 for both variants
C5_Witness ==
    /\ EuclidPrinted /\ cases = EuclidTests /\ Len(printed) = 1
    /\ Val(LastPrinted.recursive.gcd) = 10
    /\ Val(LastPrinted.iterative.gcd) = 10

Triple(g, x, y) == [gcd |-> g, x |-> x, y |-> y]

\* C6 as stated: extended_gcd(101, 23) returns (1, -9, 39) in both variants
C6_Stated ==
    (EuclidPrinted /\ cases = EuclidTests /\ Len(printed) = 2)
        => BothAre(LastPrinted, Triple(LL(LLBits, 1), Neg(LL(LLBits, 9)), LL(LLBits, 39)))

\* C6: extended_gcd(101, 23) returns (1, -5, 22) in both variants
C6_Returns ==
    (EuclidPrinted /\ cases = EuclidTests /\ Len(printed) = 2)
        => BothAre(LastPrinted, Triple(LL(LLBits, 1), Neg(LL(LLBits, 5)), LL(LLBits, 22)))

\* test() has printed the results for a = 101 and b = 23
C6_Witness ==
    /\ EuclidPrinted /\ cases = EuclidTests /\ Len(printed) = 2
    /\ LastPrinted.in = [a |-> LL(LLBits, 101), b |-> LL(LLBits, 23)]
    /\ Val(LastPrinted.recursive.x) = -5

\* C7: for M > 1 and gcd(A, M) = 1 the x that
\* extended_euclid_recursive(A, M) returns satisfies (A * x) % M == 1
C7_ModInverse ==
    (/\ EuclidPrinted
     /\ Val(LastPrinted.in.b) > 1
     /\ CoPrime(Mag(LastPrinted.in.a), Val(LastPrinted.in.b)))
        => Rem(Mul(LastPrinted.in.a, LastPrinted.recursive.x), LastPrinted.in.b)
               = LL(Len(LastPrinted.in.a), 1)

\* the current case has a negative exponent
NegativeExponent ==
    prog = "binary_exponent" /\ tno <= Len(cases) /\ IsNeg(cases[tno].exponent)

EuclidDescent ==
    /\ (prog = "extended_euclid" /\ stack # <<>> /\ Len(stack') = Len(stack) + 1)
           => ULess(Abs(stack'[Len(stack')].b), Abs(Top.b))
    /\ (prog = "extended_euclid" /\ pc = "loop" /\ pc' = "loop" /\ iters' = iters + 1)
           => ULess(Abs(loc'.b), Abs(loc.b))

\* for a = b = 0 both variants return (0, 1, 0) without any step
EuclidZeroCase ==
    (EuclidPrinted /\ IsZero(LastPrinted.in.a) /\ IsZero(LastPrinted.in.b))
        => /\ BothAre(LastPrinted, Triple(LL(Len(LastPrinted.in.a), 0),
                                          LL(Len(LastPrinted.in.a), 1),
                                          LL(Len(LastPrinted.in.a), 0)))
           /\ LastPrinted.calls = 0 /\ LastPrinted.iters = 0

\* C9: for every pair (a, b) both Euclid variants terminate: no call ends
\* in a trap, every step strictly decreases the magnitude of b, and for
\* a = b = 0 both return (0, 1, 0) without any step
C9_Terminates ==
    /\ [](pc # "trap")
    /\ [][EuclidDescent]_vars
    /\ []EuclidZeroCase

\* an iteration of the power loop, and a recursive call on an exponent
\* >= 0, halve the exponent
PowHalving ==
    /\ (prog = "binary_exponent" /\ pc = "loop" /\ pc' = "loop" /\ iters' = iters + 1)
           => Val(loc'.exponent) = Val(loc.exponent) \div 2
    /\ (prog = "binary_exponent" /\ stack # <<>> /\ Len(stack') = Len(stack) + 1
            /\ ~IsNeg(Top.exponent))
           => Val(stack'[Len(stack')].exponent) = Val(Top.exponent) \div 2

PowSteps ==
    (PowPrinted /\ ~IsNeg(LastPrinted.in.exponent))
        => /\ LastPrinted.iters = BitLen(Val(LastPrinted.in.exponent))
           /\ LastPrinted.calls = BitLen(Val(LastPrinted.in.exponent))

\* C10: for every exponent >= 0 the loop of the iterative variant runs as
\* many iterations as exponent has binary digits, each halving exponent,
\* and the recursive variant makes as many recursive calls
C10_LogSteps == []PowSteps /\ [][PowHalving]_vars

\* test() has printed 6^20 after 5 iterations and 5 recursive calls
C10_Witness ==
    /\ PowPrinted /\ cases = PowTests /\ Len(printed) = 5
    /\ LastPrinted.iters = 5 /\ LastPrinted.calls = 5

====
